---- MODULE Spec2Model ----
(***************************************************************************)
(* go-limiter: the Store contract (Increment, TakeToken), its Redis        *)
(* implementation (two Lua scripts run atomically by the server), the      *)
(* in-process store, and the Fixed Window / Token Bucket limiters on top.  *)
(*                                                                         *)
(* Time is counted in ticks, TicksPerMs ticks to the millisecond, so that  *)
(* a time.Duration need not be a whole number of milliseconds.  A token    *)
(* count (a float64 in the code) is counted in sub-tokens, TokScale to the *)
(* token; a rate is given in sub-tokens per tick, so elapsed * rate is     *)
(* exact.  The rounding of float64 arithmetic is outside the model; the    *)
(* rounding of a number written as text (Lua's tostring keeps fewer        *)
(* digits than a float64 holds) is in it, as TextDigits significant digits *)
(* of a count of sub-tokens.                                               *)
(***************************************************************************)
EXTENDS Integers, Sequences, FiniteSets, TLC

VARIABLES now, store, cfg, rdb, mem, calls, mu, sweep, resps

vars == <<now, store, cfg, rdb, mem, calls, mu, sweep, resps>>

---------------------------------------------------------------------------
(* Bounds of the model *)

TicksPerMs == 2
MaxCalls == 2
MaxFWCalls == 4
MaxTBCalls == 5
MaxReplyCalls == 1
MaxStepCalls == 4
MaxSweepCalls == 2
MaxRequests == 2
MaxTTLCalls == 4
MaxFlightCalls == 3
TextDigits == 3

(* Units *)
MsPerSec == 1000
TicksPerSec == MsPerSec * TicksPerMs
TokScale == 4 * TicksPerSec

Keys == {"a", "b"}
Limits == 0..3
Windows == {1, TicksPerMs, 2 * TicksPerMs}
Rates == {1, 4}
Bursts == {1, 2}
FWDelays == {0, 1, TicksPerMs, 2 * TicksPerMs + 1}
TBDelays == {0, TicksPerSec, 4 * TicksPerSec}
NetDelays == {0, 4 * TicksPerSec}
StepDelays == {0, 1, TicksPerSec - 1, TicksPerSec}
Intervals == {0, 2 * TicksPerMs}
SweepWait == 2 * TicksPerMs + 1
TTLDelays ==
    {0, TicksPerMs, 10 * TicksPerSec, 10 * TicksPerSec + TicksPerMs,
     16 * TicksPerSec, 16 * TicksPerSec + TicksPerMs}

---------------------------------------------------------------------------
(* Values *)

Max(a, b) == IF a >= b THEN a ELSE b

CeilDiv(a, b) == (a + b - 1) \div b

\* A reply of the backend: an integer, a decimal text ("str" of v sub-tokens),
\* some other text ("txt"), nil, an error reply, or an array of such values.
Val(t, v) == [t |-> t, v |-> v, e |-> "", a |-> <<>>]
IntR(v) == Val("int", v)
StrR(v) == Val("str", v)
ErrR(e) == [t |-> "err", v |-> 0, e |-> e, a |-> <<>>]
ArrR(a) == [t |-> "arr", v |-> 0, e |-> "", a |-> a]
NoReply == Val("none", 0)

\* What a Store operation returns to its caller.
Ret(err, count, allowed, tokens) ==
    [err |-> err, count |-> count, allowed |-> allowed, tokens |-> tokens]
NoRet == Ret("pending", 0, FALSE, 0)

---------------------------------------------------------------------------
(* The Redis keyspace.  One entry per key: a string (the INCR counter) or  *)
(* a hash (tokens, last_updated), with an optional expiry in server        *)
(* milliseconds (NoExp: none).  An expired key reads as absent.            *)

NoExp == 0 - 1
MinTTL == 10
Cost == TokScale

Absent == [type |-> "none", val |-> 0, tokens |-> 0, last |-> 0, exp |-> NoExp]

\* time.Duration.Milliseconds(): the whole milliseconds of a duration.
Milliseconds(d) == d \div TicksPerMs

\* The server's millisecond clock.
ServerMs(t) == t \div TicksPerMs

Lookup(e, ms) == IF e.type # "none" /\ e.exp # NoExp /\ ms > e.exp THEN Absent ELSE e

\* PEXPIRE key ms: a timeout that is not positive deletes the key.
PExpire(e, ms, nowMs) == IF ms <= 0 THEN Absent ELSE [e EXCEPT !.exp = nowMs + ms]

\* EXPIRE key seconds.
Expire(e, sec, nowMs) == PExpire(e, sec * MsPerSec, nowMs)

\* Mutant of IncrementLua: the increment of a counter that is there is
\* returned and not written.
IncrementLost(e0, argMs, nowMs) ==
    LET e == Lookup(e0, nowMs) IN
    IF e.type = "hash"
    THEN [entry |-> e, reply |-> ErrR("WRONGTYPE")]
    ELSE LET inc == [e EXCEPT !.type = "string", !.val = e.val + 1]
             current == inc.val
         IN  [entry |-> IF current = 1 THEN PExpire(inc, argMs, nowMs) ELSE e,
              reply |-> IntR(current)]

\* incrementLua: INCR, and PEXPIRE when the counter was just created.
IncrementLua(e0, argMs, nowMs) ==
    LET e == Lookup(e0, nowMs) IN
    IF e.type = "hash"
    THEN [entry |-> e, reply |-> ErrR("WRONGTYPE")]
    ELSE LET inc == [e EXCEPT !.type = "string", !.val = e.val + 1]
             current == inc.val
         IN  [entry |-> IF current = 1 THEN PExpire(inc, argMs, nowMs) ELSE inc,
              reply |-> IntR(current)]

\* Mutant of TakeTokenTTL: no floor of 10 seconds.
TTLNoFloor(rate, burst) == CeilDiv(2 * burst * TokScale, rate * TicksPerSec)

\* ttl = math.ceil((burst / rate) * 2), at least 10 seconds.
TakeTokenTTL(rate, burst) ==
    LET ttl == CeilDiv(2 * burst * TokScale, rate * TicksPerSec)
    IN  IF ttl < MinTTL THEN MinTTL ELSE ttl

RECURSIVE Pow10(_)
Pow10(n) == IF n = 0 THEN 1 ELSE 10 * Pow10(n - 1)

RECURSIVE NumDigits(_)
NumDigits(x) == IF x < 10 THEN 1 ELSE 1 + NumDigits(x \div 10)

\* Lua's tostring(x) for a number (LUAI_NUMBER_FMT, "%.14g"): the decimal text of
\* x rounded to the digits the format keeps.  The text of a number that has
\* no more digits than that is exact.
tostring(x) ==
    LET unit == IF NumDigits(x) > TextDigits
                THEN Pow10(NumDigits(x) - TextDigits) ELSE 1
    IN  ((x + unit \div 2) \div unit) * unit

\* Mutants of Refill: a refill that never happens, and one with no cap.
RefillOff(tokens, elapsed, rate, cap) == tokens

RefillUncapped(tokens, elapsed, rate, cap) ==
    IF elapsed > 0 THEN tokens + elapsed * rate ELSE tokens

\* takeTokenLua, lines 77-83: the lazy refill, capped at burst.
Refill(tokens, elapsed, rate, cap) ==
    IF elapsed > 0
    THEN (IF tokens + elapsed * rate > cap THEN cap ELSE tokens + elapsed * rate)
    ELSE tokens

\* Mutant of FreshTokens: the first token is not deducted.
FreshFull(cap) == cap

\* takeTokenLua, lines 69-72: a key with no entry starts at burst - cost.
FreshTokens(cap) == cap - Cost

\* takeTokenLua: HGETALL, lazy refill, conditional deduction, HSET, EXPIRE.
TakeTokenLua(e0, rate, burst, argNow, nowMs) ==
    LET e == Lookup(e0, nowMs) IN
    IF e.type = "string"
    THEN [entry |-> e, reply |-> ErrR("WRONGTYPE")]
    ELSE LET cap == burst * TokScale
             refilled == Refill(e.tokens, argNow - e.last, rate, cap)
             allowed == IF e.type = "none" THEN 1
                        ELSE IF refilled >= Cost THEN 1 ELSE 0
             tokens == IF e.type = "none" THEN FreshTokens(cap)
                       ELSE IF refilled >= Cost THEN refilled - Cost ELSE refilled
             set == [e EXCEPT !.type = "hash", !.tokens = tokens, !.last = argNow]
         IN  [entry |-> Expire(set, TakeTokenTTL(rate, burst), nowMs),
              reply |-> ArrR(<<IntR(allowed), StrR(tostring(tokens))>>)]

\* Mutant of RedisIncrementResult: the backend's error is swallowed.
IncrementSwallow(res) ==
    IF res.t = "int" THEN Ret("nil", res.v, FALSE, 0) ELSE Ret("nil", 0, FALSE, 0)

\* RedisStore.Increment, from the outcome of incrementScript.Run(...).Result().
RedisIncrementResult(res) ==
    IF res.t = "err" THEN Ret(res.e, 0, FALSE, 0)
    ELSE IF res.t = "int" THEN Ret("nil", res.v, FALSE, 0)
    ELSE Ret("panic", 0, FALSE, 0)

\* strconv.ParseFloat of the text of a reply element; the error is dropped.
ParseFloat(x) == IF x.t = "str" THEN x.v ELSE 0

\* RedisStore.TakeToken, from the outcome of takeTokenScript.Run(...).Result().
RedisTakeTokenResult(res) ==
    IF res.t = "err" THEN Ret(res.e, 0, FALSE, 0)
    ELSE IF res.t = "nil" THEN Ret("redis.Nil", 0, FALSE, 0)
    ELSE IF res.t # "arr" \/ Len(res.a) < 2 THEN Ret("ErrorExceeded", 0, FALSE, 0)
    ELSE IF res.a[1].t # "int" THEN Ret("panic", 0, FALSE, 0)
    ELSE Ret("nil", 0, res.a[1].v = 1, ParseFloat(res.a[2]))

RedisResult(alg, res) ==
    IF alg = "fw" THEN RedisIncrementResult(res) ELSE RedisTakeTokenResult(res)

---------------------------------------------------------------------------
(* The in-process store: two maps guarded by one mutex.                    *)

NoFW == [present |-> FALSE, count |-> 0, expiry |-> 0]
NoTB == [present |-> FALSE, tokens |-> 0, last |-> 0]

MemIncrement(e, window, t) ==
    IF ~e.present \/ t >= e.expiry
    THEN [present |-> TRUE, count |-> 1, expiry |-> t + window]
    ELSE [e EXCEPT !.count = e.count + 1]

MemTakeToken(e, rate, burst, t) ==
    LET cap == burst * TokScale
        elapsed == t - e.last
        grown == e.tokens + elapsed * rate
        refilled == IF ~e.present THEN cap
                    ELSE IF elapsed > 0 THEN (IF grown > cap THEN cap ELSE grown)
                    ELSE e.tokens
        allowed == refilled >= Cost
    IN  [entry |-> [present |-> TRUE,
                    tokens |-> IF allowed THEN refilled - Cost ELSE refilled,
                    last |-> t],
         allowed |-> allowed]

---------------------------------------------------------------------------
(* The limiters: Allow translates the Store's outcome into a Result.       *)

Result(err, allowed, limit, remaining) ==
    [err |-> err, allowed |-> allowed, limit |-> limit, remaining |-> remaining]

FixedWindowAllow(limit, r) ==
    IF r.err # "nil" THEN Result(r.err, FALSE, 0, 0)
    ELSE Result("nil", r.count <= limit, limit, Max(limit - r.count, 0))

TokenBucketAllow(burst, r) ==
    IF r.err # "nil" THEN Result(r.err, FALSE, 0, 0)
    ELSE Result("nil", r.allowed, burst, r.tokens \div TokScale)

---------------------------------------------------------------------------
(* State.  calls is the history of Store calls, in the order they were     *)
(* made: for a Redis call, the request (srv), the script's reply and what  *)
(* the client returned (done, ret) are separate steps.                     *)

Call(st, alg, key, argMs, at) ==
    [store |-> st, alg |-> alg, key |-> key, argMs |-> argMs, at |-> at,
     srv |-> "pending", execAt |-> 0, fresh |-> FALSE, applied |-> FALSE,
     reply |-> NoReply, done |-> FALSE, res |-> NoReply, ret |-> NoRet]

\* A limiter's configuration: NewFixedWindow(store, limit, window) and
\* NewTokenBucket(store, rate, burst).  The limit never reaches the store.
FWConfigs == [window : Windows, rate : {1}, burst : {1}]
TBConfigs == [window : {TicksPerMs}, rate : Rates, burst : Bursts]
NetConfigs ==
    {[window |-> 1, rate |-> 1, burst |-> 1],
     [window |-> TicksPerMs, rate |-> 4, burst |-> 1],
     [window |-> 2 * TicksPerMs, rate |-> 1, burst |-> 2],
     [window |-> TicksPerMs, rate |-> 4, burst |-> 2]}
Stores == {"mem", "redis"}

\* The sweep task of the in-process store: its interval (0: no sweeping),
\* whether its context is cancelled, and where a pass over the maps stands
\* (todo: the entries still to look at; doomed: the entry found expired and
\* about to be deleted).
Cleanup(interval) ==
    [interval |-> interval, cancelled |-> FALSE, since |-> 0,
     todo |-> {}, doomed |-> {}]

Start ==
    /\ now = 0
    /\ store \in Stores
    /\ rdb = [k \in Keys |-> Absent]
    /\ mem = [fw |-> [k \in Keys |-> NoFW], tb |-> [k \in Keys |-> NoTB]]
    /\ calls = <<>>
    /\ mu = "free"
    /\ resps = <<>>

NoSweep == sweep = Cleanup(0)

Init == NoSweep /\ Start /\ cfg \in NetConfigs

\* Mutant of Stored: the write goes to every key.
StoredAll(db, k, e) == [j \in Keys |-> e]

\* The writes of a script go to KEYS[1], the key of the call.
Stored(db, k, e) == [db EXCEPT ![k] = e]

\* The script of a call, run by the server on the key's entry.
RunScript(c, e, t) ==
    IF c.alg = "fw"
    THEN IncrementLua(e, c.argMs, ServerMs(t))
    ELSE TakeTokenLua(e, cfg.rate, cfg.burst, c.at, ServerMs(t))

Executed(c, e, t) ==
    LET out == RunScript(c, e, t) IN
    [c EXCEPT !.srv = "executed", !.execAt = t, !.reply = out.reply,
              !.fresh = (Lookup(e, ServerMs(t)).type = "none"),
              !.applied = (out.reply.t # "err")]

\* What the caller gets when Run(...).Result() yields res.
Returned(c, res) ==
    [c EXCEPT !.done = TRUE, !.res = res, !.ret = RedisResult(c.alg, res)]

\* RedisStore.Increment / RedisStore.TakeToken up to the request being sent,
\* d after the last reading of the clock: the arguments are fixed here
\* (window.Milliseconds(), the client's clock).
Send(alg, k, d) ==
    /\ store = "redis"
    /\ Len(calls) < MaxCalls
    /\ now' = now + d
    /\ calls' = Append(calls, Call("redis", alg, k, Milliseconds(cfg.window), now'))
    /\ UNCHANGED <<store, cfg, rdb, mem, mu, sweep, resps>>

\* The server runs the script of a request, atomically, and the reply
\* reaches the caller if it is still waiting.
Exec(i) ==
    /\ calls[i].store = "redis"
    /\ calls[i].srv = "pending"
    /\ rdb' = Stored(rdb, calls[i].key, RunScript(calls[i], rdb[calls[i].key], now).entry)
    /\ LET x == Executed(calls[i], rdb[calls[i].key], now)
       IN  calls' = [calls EXCEPT ![i] = IF x.done THEN x ELSE Returned(x, x.reply)]
    /\ UNCHANGED <<now, store, cfg, mem, mu, sweep, resps>>

\* The server runs the script, and Run(...).Result() fails all the same: the
\* context is cancelled, or the connection fails, before the reply is read.
ExecFail(i, e) ==
    /\ calls[i].store = "redis"
    /\ calls[i].srv = "pending"
    /\ ~calls[i].done
    /\ rdb' = Stored(rdb, calls[i].key, RunScript(calls[i], rdb[calls[i].key], now).entry)
    /\ calls' = [calls EXCEPT
                    ![i] = Returned(Executed(@, rdb[calls[i].key], now), ErrR(e))]
    /\ UNCHANGED <<now, store, cfg, mem, mu, sweep, resps>>

\* Run(...).Result() fails before the server has run the script; a request
\* that is on its way can still be run afterwards.
Fail(i, e) ==
    /\ calls[i].store = "redis"
    /\ calls[i].srv = "pending"
    /\ ~calls[i].done
    /\ calls' = [calls EXCEPT ![i] = Returned(@, ErrR(e))]
    /\ UNCHANGED <<now, store, cfg, rdb, mem, mu, sweep, resps>>

\* A whole Redis call with nothing in between.
RoundTrip(alg, k, d, max) ==
    /\ store = "redis"
    /\ Len(calls) < max
    /\ now' = now + d
    /\ LET c == Call("redis", alg, k, Milliseconds(cfg.window), now')
           x == Executed(c, rdb[k], now')
       IN  /\ rdb' = Stored(rdb, k, RunScript(c, rdb[k], now').entry)
           /\ calls' = Append(calls, Returned(x, x.reply))
    /\ UNCHANGED <<store, cfg, mem, mu, sweep, resps>>

\* Mutant of MuFree: the mutex is not looked at.
MuIgnored == TRUE

\* The store's mutex is free: Increment and TakeToken lock it, do their whole
\* read-modify-write and unlock it, in one step here.
MuFree == mu = "free"

MemCalled(alg, k, t, fresh, ret) ==
    [Call("mem", alg, k, 0, t) EXCEPT
        !.srv = "executed", !.execAt = t, !.fresh = fresh, !.applied = TRUE,
        !.done = TRUE, !.ret = ret]

\* MemoryStore.Increment.
MemInc(k, d, max) ==
    /\ store = "mem"
    /\ MuFree
    /\ Len(calls) < max
    /\ now' = now + d
    /\ LET e == MemIncrement(mem.fw[k], cfg.window, now')
       IN  /\ mem' = [mem EXCEPT !.fw[k] = e]
           /\ calls' = Append(calls, MemCalled("fw", k, now', e.count = 1,
                                               Ret("nil", e.count, FALSE, 0)))
    /\ UNCHANGED <<store, cfg, rdb, mu, sweep, resps>>

\* MemoryStore.TakeToken.
MemTake(k, d, max) ==
    /\ store = "mem"
    /\ MuFree
    /\ Len(calls) < max
    /\ now' = now + d
    /\ LET out == MemTakeToken(mem.tb[k], cfg.rate, cfg.burst, now')
       IN  /\ mem' = [mem EXCEPT !.tb[k] = out.entry]
           /\ calls' = Append(calls, MemCalled("tb", k, now', ~mem.tb[k].present,
                                               Ret("nil", 0, out.allowed, out.entry.tokens)))
    /\ UNCHANGED <<store, cfg, rdb, mu, sweep, resps>>

Errors == {"canceled", "unavailable"}

\* Any number of callers, their calls in flight together.
Next ==
    \/ \E alg \in {"fw", "tb"}, k \in Keys, d \in NetDelays : Send(alg, k, d)
    \/ \E i \in 1..Len(calls) : Exec(i)
    \/ \E i \in 1..Len(calls), e \in Errors : ExecFail(i, e)
    \/ \E i \in 1..Len(calls), e \in Errors : Fail(i, e)
    \/ \E k \in Keys, d \in NetDelays : MemInc(k, d, MaxCalls)
    \/ \E k \in Keys, d \in NetDelays : MemTake(k, d, MaxCalls)

Spec == Init /\ [][Next]_vars

\* One Fixed Window limiter, its calls one after the other.
InitFW == NoSweep /\ Start /\ cfg \in FWConfigs

NextFW ==
    \/ \E k \in Keys, d \in FWDelays : RoundTrip("fw", k, d, MaxFWCalls)
    \/ \E k \in Keys, d \in FWDelays : MemInc(k, d, MaxFWCalls)

SpecFW == InitFW /\ [][NextFW]_vars

\* One Token Bucket limiter, its calls one after the other.
InitTB == NoSweep /\ Start /\ cfg \in TBConfigs

NextTB ==
    \/ \E k \in Keys, d \in TBDelays : RoundTrip("tb", k, d, MaxTBCalls)
    \/ \E k \in Keys, d \in TBDelays : MemTake(k, d, MaxTBCalls)

SpecTB == InitTB /\ [][NextTB]_vars

\* Replies of a backend that need not be the script's: any value, and any
\* array of up to three values.
ReplyElems == {IntR(0), IntR(1), StrR(TokScale \div 2), Val("txt", 0), Val("nil", 0)}
ReplyArrays == UNION {[1..n -> ReplyElems] : n \in 0..3}
Replies == {IntR(1), StrR(0), Val("txt", 0), Val("nil", 0)}
              \cup {ArrR(a) : a \in ReplyArrays}

\* RedisStore.TakeToken when the reply that reaches it is r.
Garbled(k, r, max) ==
    /\ store = "redis"
    /\ Len(calls) < max
    /\ LET c == Call("redis", "tb", k, Milliseconds(cfg.window), now)
           x == Executed(c, rdb[k], now)
       IN  /\ rdb' = Stored(rdb, k, RunScript(c, rdb[k], now).entry)
           /\ calls' = Append(calls, Returned(x, r))
    /\ UNCHANGED <<now, store, cfg, mem, mu, sweep, resps>>

InitReply == NoSweep /\ Start /\ store = "redis" /\ cfg \in TBConfigs

NextReply ==
    \/ \E k \in Keys, d \in TBDelays : RoundTrip("tb", k, d, MaxReplyCalls)
    \/ \E k \in Keys, r \in Replies : Garbled(k, r, MaxReplyCalls)

SpecReply == InitReply /\ [][NextReply]_vars

---------------------------------------------------------------------------
(* The sweep task of the in-process store.  On every tick of its interval  *)
(* it locks the store's mutex, looks at each entry of the two maps,        *)
(* deletes the ones whose expiry has passed and unlocks.  A fixed-window   *)
(* entry has passed its expiry when the clock is after it; a token-bucket  *)
(* entry when it has not been updated for longer than the interval.        *)

Entries == {"fw", "tb"} \X Keys

EntryOf(n) == IF n[1] = "fw" THEN mem.fw[n[2]] ELSE mem.tb[n[2]]

\* The entry n is in its map and its expiry has passed: the window's end for
\* a fixed-window entry, an interval without update for a token bucket.
Stale(n) ==
    /\ EntryOf(n).present
    /\ IF n[1] = "fw" THEN now > EntryOf(n).expiry
                       ELSE now - EntryOf(n).last > sweep.interval

\* Mutant of FWSwept: no fixed-window entry is ever found expired.
FWKept(e, t) == FALSE

FWSwept(e, t) == e.present /\ t > e.expiry

TBSwept(e, t) == e.present /\ t - e.last > sweep.interval

Swept(n, t) ==
    IF n[1] = "fw" THEN FWSwept(mem.fw[n[2]], t) ELSE TBSwept(mem.tb[n[2]], t)

\* Mutant of SweepRuns: the task goes on after its context is cancelled.
SweepRunsOn == sweep.interval > 0

\* The sweep task is alive: it was started and its context is not cancelled.
SweepRuns == sweep.interval > 0 /\ ~sweep.cancelled

\* A tick of the interval: the pass starts by locking the mutex.
SweepBegin ==
    /\ store = "mem"
    /\ SweepRuns
    /\ mu = "free"
    /\ mu' = "sweep"
    /\ sweep' = [sweep EXCEPT !.todo = Entries, !.doomed = {}]
    /\ UNCHANGED <<now, store, cfg, rdb, mem, calls, resps>>

\* The pass looks at an entry: the fixed-window map first, then the
\* token-bucket map, each in any order.
SweepCheck(n) ==
    /\ SweepRuns
    /\ mu = "sweep"
    /\ sweep.doomed = {}
    /\ n \in sweep.todo
    /\ n[1] = "tb" => \A m \in sweep.todo : m[1] = "tb"
    /\ sweep' = [sweep EXCEPT !.todo = @ \ {n},
                              !.doomed = IF Swept(n, now) THEN {n} ELSE {}]
    /\ UNCHANGED <<now, store, cfg, rdb, mem, calls, mu, resps>>

\* The pass deletes the entry it has found expired.
SweepDelete ==
    /\ SweepRuns
    /\ mu = "sweep"
    /\ sweep.doomed # {}
    /\ mem' = [fw |-> [k \in Keys |-> IF <<"fw", k>> \in sweep.doomed
                                      THEN NoFW ELSE mem.fw[k]],
               tb |-> [k \in Keys |-> IF <<"tb", k>> \in sweep.doomed
                                      THEN NoTB ELSE mem.tb[k]]]
    /\ sweep' = [sweep EXCEPT !.doomed = {}]
    /\ UNCHANGED <<now, store, cfg, rdb, calls, mu, resps>>

\* The pass is over: the mutex is unlocked.
SweepEnd ==
    /\ SweepRuns
    /\ mu = "sweep"
    /\ sweep.todo = {}
    /\ sweep.doomed = {}
    /\ mu' = "free"
    /\ UNCHANGED <<now, store, cfg, rdb, mem, calls, sweep, resps>>

\* The governing context is cancelled.
Cancel ==
    /\ store = "mem"
    /\ ~sweep.cancelled
    /\ sweep' = [sweep EXCEPT !.cancelled = TRUE, !.since = Len(calls)]
    /\ UNCHANGED <<now, store, cfg, rdb, mem, calls, mu, resps>>

\* The cancelled task stops where it is and lets go of the mutex.
SweepStop ==
    /\ sweep.cancelled
    /\ mu = "sweep"
    /\ mu' = "free"
    /\ sweep' = [sweep EXCEPT !.todo = {}, !.doomed = {}]
    /\ UNCHANGED <<now, store, cfg, rdb, mem, calls, resps>>

\* Time passes while some entry has its expiry still to come.
Wait ==
    /\ store = "mem"
    /\ \E n \in Entries : EntryOf(n).present /\ ~Stale(n)
    /\ now' = now + SweepWait
    /\ UNCHANGED <<store, cfg, rdb, mem, calls, mu, sweep, resps>>

SweepPass ==
    \/ SweepBegin
    \/ \E n \in Entries : SweepCheck(n)
    \/ SweepDelete
    \/ SweepEnd

InitSweep ==
    /\ Start
    /\ store = "mem"
    /\ cfg \in NetConfigs
    /\ sweep \in {Cleanup(i) : i \in Intervals}

NextSweep ==
    \/ \E k \in Keys : MemInc(k, 0, MaxSweepCalls)
    \/ \E k \in Keys : MemTake(k, 0, MaxSweepCalls)
    \/ Wait
    \/ SweepBegin
    \/ \E n \in Entries : SweepCheck(n)
    \/ SweepDelete
    \/ SweepEnd
    \/ Cancel
    \/ SweepStop

SpecSweep == InitSweep /\ [][NextSweep]_vars

\* The ticker keeps firing and a pass that has begun goes on.
SpecSweepLive == SpecSweep /\ WF_vars(SweepPass)

---------------------------------------------------------------------------
(* The HTTP middleware adapters (chi, echo): one request is one call of    *)
(* the handler that RateLimiter returns.  The limiter is any               *)
(* implementation of ratelimiter.Limiter, the key function any KeyFunc:    *)
(* what they return is an input.  A response is the list of what the       *)
(* handler did, in order (ev), the headers it set and the status it wrote. *)

Digit(d) == <<"0", "1", "2", "3", "4", "5", "6", "7", "8", "9">>[d + 1]

RECURSIVE FormatNat(_)
FormatNat(n) == IF n < 10 THEN <<Digit(n)>> ELSE Append(FormatNat(n \div 10), Digit(n % 10))

\* strconv.FormatInt(n, 10): the decimal digits, after a minus sign if n < 0.
FormatInt(n) == IF n < 0 THEN <<"-">> \o FormatNat(0 - n) ELSE FormatNat(n)

\* time.Time.Unix() of the instant t: whole seconds.
Unix(t) == t \div TicksPerSec

NoHeaders == [limit |-> <<>>, remaining |-> <<>>, reset |-> <<>>]

Response(adapter, keyErr, out, t) ==
    [adapter |-> adapter, keyErr |-> keyErr, out |-> out, at |-> t,
     allows |-> 0, headers |-> NoHeaders, status |-> 0, ev |-> <<>>,
     passed |-> <<>>]

\* http.Error(w, ..., 500) / c.String(500, ...).
InternalServerError(r) == [r EXCEPT !.status = 500, !.ev = Append(@, "write 500")]

\* limiter.Allow(ctx, key).
AllowCalled(r) == [r EXCEPT !.allows = @ + 1, !.ev = Append(@, "Allow")]

\* The three Header().Set calls.
HeadersSet(r) ==
    [r EXCEPT !.headers = [limit |-> FormatInt(r.out.limit),
                           remaining |-> FormatInt(r.out.remaining),
                           reset |-> FormatInt(Unix(r.at + r.out.resetAfter))],
              !.ev = @ \o <<"X-RateLimit-Limit", "X-RateLimit-Remaining",
                            "X-RateLimit-Reset">>]

Ran(r, what) == [r EXCEPT !.ev = Append(@, what)]

\* cfg.ErrorHandler(w, r, ratelimiter.ErrorExceeded, result).
ErrorHandlerRan(r) ==
    [r EXCEPT !.ev = Append(@, "ErrorHandler"), !.passed = <<"ErrorExceeded", r.out>>]

\* Mutant of ChiRateLimiter: the headers are set on allowed requests only.
ChiHeadersWhenAllowed(r) ==
    IF r.keyErr # "nil" THEN InternalServerError(r)
    ELSE LET a == AllowCalled(r) IN
         IF a.out.err # "nil" THEN InternalServerError(a)
         ELSE IF ~a.out.allowed THEN ErrorHandlerRan(a)
         ELSE Ran(HeadersSet(a), "next")

\* chi.RateLimiter: the handler.
ChiRateLimiter(r) ==
    IF r.keyErr # "nil" THEN InternalServerError(r)
    ELSE LET a == AllowCalled(r) IN
         IF a.out.err # "nil" THEN InternalServerError(a)
         ELSE LET h == HeadersSet(a) IN
              IF ~h.out.allowed THEN ErrorHandlerRan(h)
              ELSE Ran(h, "next")

\* Mutant of EchoRateLimiter: the denied branch does not return.
EchoFallsThrough(r) ==
    IF r.keyErr # "nil" THEN InternalServerError(r)
    ELSE LET a == AllowCalled(r) IN
         IF a.out.err # "nil" THEN InternalServerError(a)
         ELSE LET h == HeadersSet(a) IN
              IF ~h.out.allowed THEN Ran(ErrorHandlerRan(h), "next")
              ELSE Ran(h, "next")

\* echo.RateLimiter: the handler.
EchoRateLimiter(r) ==
    IF r.keyErr # "nil" THEN InternalServerError(r)
    ELSE LET a == AllowCalled(r) IN
         IF a.out.err # "nil" THEN InternalServerError(a)
         ELSE LET h == HeadersSet(a) IN
              IF ~h.out.allowed THEN ErrorHandlerRan(h)
              ELSE Ran(h, "next")

Adapters == {"chi", "echo"}

\* What Limiter.Allow can return: an error, or a Result.
AllowErr(e) == [err |-> e, allowed |-> FALSE, limit |-> 0, remaining |-> 0, resetAfter |-> 0]

AllowResults ==
    [err : {"nil"}, allowed : BOOLEAN, limit : {100}, remaining : {0, 12},
     resetAfter : {0, TicksPerSec + 1}]

AllowOutcomes == AllowResults \cup {AllowErr(e) : e \in Errors}

KeyOutcomes == {"nil", "no key"}

\* One request through the middleware.
Request(adapter, keyErr, out, d) ==
    /\ Len(resps) < MaxRequests
    /\ now' = now + d
    /\ LET r == Response(adapter, keyErr, out, now')
       IN  resps' = Append(resps, IF adapter = "chi" THEN ChiRateLimiter(r)
                                                     ELSE EchoRateLimiter(r))
    /\ UNCHANGED <<store, cfg, rdb, mem, calls, mu, sweep>>

InitHTTP ==
    /\ NoSweep
    /\ Start
    /\ store = "mem"
    /\ cfg = [window |-> TicksPerMs, rate |-> 1, burst |-> 1]

NextHTTP ==
    \E adapter \in Adapters, keyErr \in KeyOutcomes, out \in AllowOutcomes,
       d \in {0, TicksPerSec - 1} : Request(adapter, keyErr, out, d)

SpecHTTP == InitHTTP /\ [][NextHTTP]_vars

\* One Token Bucket limiter, its calls one after the other at times that
\* leave fractions of a token in the bucket.
InitStep == NoSweep /\ Start /\ cfg \in TBConfigs

NextStep ==
    \/ \E k \in Keys, d \in StepDelays : RoundTrip("tb", k, d, MaxStepCalls)
    \/ \E k \in Keys, d \in StepDelays : MemTake(k, d, MaxStepCalls)

SpecStep == InitStep /\ [][NextStep]_vars

\* One Token Bucket limiter on the networked store, its calls on one key
\* around the key's time-to-live.
InitTTL == NoSweep /\ Start /\ store = "redis" /\ cfg \in TBConfigs

NextTTL == \E d \in TTLDelays : RoundTrip("tb", "a", d, MaxTTLCalls)

SpecTTL == InitTTL /\ [][NextTTL]_vars

\* RedisStore.TakeToken up to the request being sent: the caller's clock is
\* read here, the script runs when the server gets to it (Exec).
SendTake(k, d) ==
    /\ store = "redis"
    /\ Len(calls) < MaxFlightCalls
    /\ now' = now + d
    /\ calls' = Append(calls, Call("redis", "tb", k, Milliseconds(cfg.window), now'))
    /\ UNCHANGED <<store, cfg, rdb, mem, mu, sweep, resps>>

FlightDelays == {0, TicksPerSec, 16 * TicksPerSec + TicksPerMs}

\* Token Bucket limiters that share one store and one clock, their calls on
\* one key in flight together.
InitFlight == NoSweep /\ Start /\ cfg \in TBConfigs

NextFlight ==
    \/ \E d \in FlightDelays : SendTake("a", d)
    \/ \E i \in 1..Len(calls) : Exec(i)
    \/ \E d \in FlightDelays : MemTake("a", d, MaxFlightCalls)

SpecFlight == InitFlight /\ [][NextFlight]_vars

\* RedisStore.Increment up to the request being sent: window.Milliseconds()
\* is fixed here, the script runs when the server gets to it (Exec).
SendIncrement(k, d) ==
    /\ store = "redis"
    /\ Len(calls) < MaxFlightCalls
    /\ now' = now + d
    /\ calls' = Append(calls, Call("redis", "fw", k, Milliseconds(cfg.window), now'))
    /\ UNCHANGED <<store, cfg, rdb, mem, mu, sweep, resps>>

\* Fixed Window limiters that share one store, their calls on one key in
\* flight together, any of them failing before or after its script has run.
InitWindow == NoSweep /\ Start /\ cfg \in FWConfigs

WindowDelays == {0, 2 * TicksPerMs + 1}

NextWindow ==
    \/ \E d \in WindowDelays : SendIncrement("a", d)
    \/ \E i \in 1..Len(calls) : Exec(i)
    \/ \E i \in 1..Len(calls) : ExecFail(i, "canceled")
    \/ \E i \in 1..Len(calls) : Fail(i, "canceled")
    \/ \E d \in WindowDelays : MemInc("a", d, MaxFlightCalls)

SpecWindow == InitWindow /\ [][NextWindow]_vars

---------------------------------------------------------------------------
(* Reading the history *)

Idx == 1..Len(calls)

\* The calls of one algorithm on one key, in the order they were made.
KeyCalls(alg, k) == SelectSeq(calls, LAMBDA c : c.alg = alg /\ c.key = k)

\* The Result a limiter's Allow gives for a call that has returned.
AllowFW(limit, c) == FixedWindowAllow(limit, c.ret)
AllowTB(c) == TokenBucketAllow(cfg.burst, c.ret)

\* Where a fixed-window call stands, counted as the contract counts: n-th
\* call of the window that the call at time anchor opened.  A call less than
\* window after the anchor is in the window; a call more than window and one
\* millisecond (the resolution of the server's clock) after it opens the
\* next one; a call in between is left undetermined (ok = FALSE), and so is
\* every call after it.
RECURSIVE WindowPos(_, _)
WindowPos(s, p) ==
    IF p = 1 THEN [ok |-> TRUE, anchor |-> s[1].at, n |-> 1]
    ELSE LET q == WindowPos(s, p - 1)
             gone == s[p].at - q.anchor
         IN  IF ~q.ok THEN q
             ELSE IF gone < cfg.window THEN [q EXCEPT !.n = q.n + 1]
             ELSE IF gone > cfg.window + TicksPerMs
                  THEN [ok |-> TRUE, anchor |-> s[p].at, n |-> 1]
             ELSE [q EXCEPT !.ok = FALSE]

---------------------------------------------------------------------------
(* Claims *)

\* C1: Fixed Window sequence.  With limit N >= 1 and window W, the n-th call
\* of a window (the calls made less than W after the call that opened it) is
\* allowed with remaining N - n while n <= N and denied with remaining 0 when
\* n = N + 1; the first call made after W has elapsed opens a new window and
\* is allowed with remaining N - 1.
C1_FixedWindowSequence ==
    \A k \in Keys, limit \in Limits \ {0} :
        LET s == KeyCalls("fw", k) IN
        \A p \in 1..Len(s) :
            LET w == WindowPos(s, p)
                r == AllowFW(limit, s[p])
            IN  (w.ok /\ w.n <= limit + 1) =>
                    /\ r.err = "nil"
                    /\ r.allowed = (w.n <= limit)
                    /\ r.remaining = Max(limit - w.n, 0)

\* C2: Token Bucket sequence.  With rate R and burst B, on either store: the
\* first B calls for a fresh key, made at once, are allowed; call B + 1, made
\* at once, is denied; the call made 1/R later is allowed, and the call made
\* at once after that one is denied.
TBWait == TokScale \div cfg.rate

AtOnce(s, p) == \A q \in 1..p : s[q].at = s[1].at

C2_TokenBucketSequence ==
    \A k \in Keys :
        LET s == KeyCalls("tb", k)
            B == cfg.burst
        IN  \A p \in 1..Len(s) :
                /\ AllowTB(s[p]).err = "nil"
                /\ (p <= B /\ AtOnce(s, p)) =>
                        /\ AllowTB(s[p]).allowed
                        /\ AllowTB(s[p]).remaining = B - p
                /\ (p = B + 1 /\ AtOnce(s, p)) => ~AllowTB(s[p]).allowed
                /\ (p = B + 2 /\ AtOnce(s, B + 1) /\ s[p].at = s[1].at + TBWait)
                        => AllowTB(s[p]).allowed
                /\ (p = B + 3 /\ AtOnce(s, B + 1) /\ s[B + 2].at = s[1].at + TBWait
                        /\ s[p].at = s[B + 2].at)
                        => ~AllowTB(s[p]).allowed

\* C2 witness: on Redis, a bucket of burst 2 has been through the whole
\* sequence: two calls allowed, the third denied, the call 1/R later allowed
\* and the one after it denied.
C2_Witness ==
    /\ store = "redis"
    /\ cfg.burst = 2
    /\ \E k \in Keys :
        LET s == KeyCalls("tb", k) IN
        /\ Len(s) = 5
        /\ AtOnce(s, 3)
        /\ s[4].at = s[1].at + TBWait
        /\ s[5].at = s[4].at
        /\ s[4].ret.allowed
        /\ ~s[5].ret.allowed

\* C3: no lost updates.  K calls for the same fresh key that are in flight
\* together, run by the store at one instant and all answered, get the counts
\* 1..K, each once; under a limit >= K they are all allowed and their
\* remaining values are exactly limit-1, ..., limit-K.
C3_NoLostUpdates ==
    \A k \in Keys :
        LET s == KeyCalls("fw", k)
            K == Len(s)
        IN  ( /\ K >= 1
              /\ KeyCalls("tb", k) = <<>>
              /\ \A p \in 1..K : /\ s[p].done
                                 /\ s[p].res.t # "err"
                                 /\ s[p].execAt = s[1].at )
            =>  /\ {s[p].ret.count : p \in 1..K} = 1..K
                /\ \A limit \in Limits :
                      limit >= K =>
                        /\ \A p \in 1..K : AllowFW(limit, s[p]).allowed
                        /\ {AllowFW(limit, s[p]).remaining : p \in 1..K}
                              = (limit - K)..(limit - 1)

\* C4: bounds.  Every fixed-window Result has 0 <= remaining <= limit; every
\* stored token-bucket entry and every remainingTokens value that TakeToken
\* returns has 0 <= tokens <= burst.
InBucket(tokens) == 0 <= tokens /\ tokens <= cfg.burst * TokScale

C4_Bounds ==
    /\ \A i \in Idx :
        (calls[i].done /\ calls[i].ret.err = "nil") =>
            IF calls[i].alg = "fw"
            THEN \A limit \in Limits :
                    /\ 0 <= AllowFW(limit, calls[i]).remaining
                    /\ AllowFW(limit, calls[i]).remaining <= limit
            ELSE /\ InBucket(calls[i].ret.tokens)
                 /\ 0 <= AllowTB(calls[i]).remaining
                 /\ AllowTB(calls[i]).remaining <= cfg.burst
    /\ \A k \in Keys :
        /\ rdb[k].type = "hash" => InBucket(rdb[k].tokens)
        /\ mem.tb[k].present => InBucket(mem.tb[k].tokens)

\* C4 witness: on Redis a bucket was refilled up to its burst (the refill
\* would have gone beyond it) and a token was then taken from it.
C4_Witness ==
    /\ store = "redis"
    /\ \E k \in Keys :
        LET s == KeyCalls("tb", k) IN
        /\ Len(s) = 2
        /\ s[1].done /\ s[2].done
        /\ s[1].ret.err = "nil" /\ s[2].ret.err = "nil"
        /\ s[1].ret.tokens + (s[2].at - s[1].at) * cfg.rate > cfg.burst * TokScale
        /\ s[2].execAt >= s[1].execAt
        /\ s[2].ret.tokens = cfg.burst * TokScale - Cost
        /\ rdb[k].tokens = s[2].ret.tokens

\* Whether the fixed-window entry of a key is there at time t.
LiveFW(k, t) ==
    IF store = "redis"
    THEN Lookup(rdb[k], ServerMs(t)).type = "string"
    ELSE mem.fw[k].present /\ t < mem.fw[k].expiry

\* C5: fixed, not sliding, window.  The Increment that creates a key's entry
\* sets its expiry to now + window; a later Increment before that expiry
\* returns one more and leaves the expiry where it is; the first Increment
\* after it returns 1 and anchors a new window.  (After the key's latest
\* Increment: the count returned is the call's place in its window, and the
\* entry is there until the window's end and gone after it.)
C5_FixedNotSliding ==
    \A k \in Keys :
        LET s == KeyCalls("fw", k)
            w == WindowPos(s, Len(s))
        IN  (Len(s) >= 1 /\ w.ok) =>
                /\ s[Len(s)].ret.err = "nil"
                /\ s[Len(s)].ret.count = w.n
                /\ LiveFW(k, w.anchor + cfg.window - 1)
                /\ ~LiveFW(k, w.anchor + cfg.window + TicksPerMs + 1)

\* What a call on a key that has no entry returns.
FreshRet(alg) ==
    IF alg = "fw" THEN Ret("nil", 1, FALSE, 0)
    ELSE Ret("nil", 0, TRUE, (cfg.burst - 1) * TokScale)

\* What the store's run of a call gives the caller, if the reply arrives.
ScriptRet(c) == IF c.store = "redis" THEN RedisResult(c.alg, c.reply) ELSE c.ret

Answered(c) == c.done /\ c.res = c.reply

\* C6: fresh-key results.  On a key that no call has touched, Increment
\* returns 1 and TakeToken returns (allowed, burst - 1), whatever the rate and
\* the window.
C6_FreshKey ==
    \A i \in Idx :
        ( /\ calls[i].srv = "executed"
          /\ \A j \in Idx \ {i} :
                calls[j].key = calls[i].key => calls[j].srv = "pending" )
        =>  /\ ScriptRet(calls[i]) = FreshRet(calls[i].alg)
            /\ (calls[i].store = "redis" /\ Answered(calls[i]))
                    => calls[i].ret = FreshRet(calls[i].alg)

\* C6 witness: RedisStore.TakeToken has returned for the first call on a key,
\* with burst 2.
C6_Witness ==
    \E i \in Idx :
        /\ calls[i].store = "redis"
        /\ calls[i].alg = "tb"
        /\ cfg.burst = 2
        /\ Answered(calls[i])
        /\ \A j \in Idx \ {i} : calls[j].key # calls[i].key
        /\ calls[i].ret.allowed
        /\ calls[i].ret.tokens = TokScale

\* C7: per-algorithm state for one key.  On every store, calls of one
\* algorithm on a key neither fail nor change their result because of calls
\* of the other algorithm on the same key: no run of a call ends in an error,
\* and the first call of an algorithm on a key gets the fresh-key result.
C7_AlgorithmsIndependent ==
    \A i \in Idx :
        calls[i].srv = "executed" =>
            /\ ScriptRet(calls[i]).err = "nil"
            /\ (\A j \in Idx \ {i} :
                    ~(calls[j].key = calls[i].key /\ calls[j].alg = calls[i].alg))
                => ScriptRet(calls[i]) = FreshRet(calls[i].alg)

\* C8: all-or-nothing cancellation.  A Store call that returns an error (its
\* context cancelled, its deadline passed) has applied no mutation to the
\* key's backend state.
C8_ErrorAppliesNothing ==
    \A i \in Idx :
        (calls[i].done /\ calls[i].ret.err # "nil") => ~calls[i].applied

\* The reply TakeToken expects: an array of an integer flag and the decimal
\* text of the tokens.
WellFormed(res) ==
    /\ res.t = "arr"
    /\ Len(res.a) = 2
    /\ res.a[1].t = "int"
    /\ res.a[2].t = "str"

\* C9: malformed backend responses.  When the reply to RedisStore.TakeToken
\* is not a two-element array of (integer flag, decimal text), TakeToken
\* returns an error that is not the limit-exceeded signal; and it never
\* returns a nil error with an allowed flag or a remaining value that the
\* backend did not send.
C9_MalformedReply ==
    \A i \in Idx :
        (calls[i].alg = "tb" /\ calls[i].store = "redis" /\ calls[i].done
            /\ calls[i].res.t # "err") =>
            /\ ~WellFormed(calls[i].res)
                    => calls[i].ret.err \notin {"nil", "ErrorExceeded", "panic"}
            /\ calls[i].ret.err = "nil" =>
                    /\ calls[i].res.t = "arr"
                    /\ calls[i].res.a[1] = IntR(IF calls[i].ret.allowed THEN 1 ELSE 0)
                    /\ calls[i].res.a[2] = StrR(calls[i].ret.tokens)

\* C10: backend errors propagate unchanged.  When the backend call of
\* RedisStore.Increment or RedisStore.TakeToken fails, the operation returns
\* that same error with zero-valued results and never a successful outcome.
\* (A Store call sends its script once: Increment and TakeToken hold one Run
\* and no loop, and the model one request per call.)
C10_ErrorsPropagate ==
    \A i \in Idx :
        (calls[i].store = "redis" /\ calls[i].done /\ calls[i].res.t = "err") =>
            /\ calls[i].ret = Ret(calls[i].res.e, 0, FALSE, 0)
            /\ calls[i].ret.err # "nil"

\* C10 witness: one call was failed by the connection and another by the
\* server (WRONGTYPE), and both have returned.
C10_Witness ==
    \E i, j \in Idx :
        /\ calls[i].done /\ calls[i].res = ErrR("unavailable")
        /\ calls[i].alg = "fw"
        /\ calls[j].done /\ calls[j].res = ErrR("WRONGTYPE")
        /\ calls[j].alg = "tb"

\* The bucket of a key after the p-th of the calls s, made one after the
\* other on a key that had no entry and within its time-to-live, as the
\* contract computes it: the first call leaves burst - 1; a later call
\* refills by elapsed * rate up to burst and takes a token if there is one.
RECURSIVE Bucket(_, _)
Bucket(s, p) ==
    LET cap == cfg.burst * TokScale IN
    IF p = 1 THEN [tokens |-> cap - TokScale, last |-> s[1].at, allowed |-> TRUE]
    ELSE LET b == Bucket(s, p - 1)
             elapsed == s[p].at - b.last
             grown == b.tokens + elapsed * cfg.rate
             have == IF elapsed <= 0 THEN b.tokens
                     ELSE IF grown > cap THEN cap ELSE grown
         IN  [tokens |-> IF have >= TokScale THEN have - TokScale ELSE have,
              last |-> s[p].at,
              allowed |-> have >= TokScale]

StoredTokens(k) == IF store = "redis" THEN rdb[k].tokens ELSE mem.tb[k].tokens

\* C11: Token Bucket reporting.  For every Allow call, Result.Limit is burst
\* and Result.Remaining is the store's token count after the call, truncated
\* toward zero (a remainder of 0.01 or 0.99 token reports as 0), while the
\* stored count keeps its fraction.
C11_TokenBucketReporting ==
    \A k \in Keys :
        LET s == KeyCalls("tb", k) IN
        \A p \in 1..Len(s) :
            /\ AllowTB(s[p]).err = "nil"
            /\ AllowTB(s[p]).limit = cfg.burst
            /\ AllowTB(s[p]).remaining = Bucket(s, p).tokens \div TokScale
            /\ (p = Len(s)) => StoredTokens(k) = Bucket(s, p).tokens

\* C12: sweep liveness.  With a positive interval and the context not
\* cancelled, every entry of either map whose expiry has passed is removed
\* in the end, with no further call for its key.
C12_SweepLiveness ==
    \A n \in Entries :
        (Stale(n) /\ SweepRuns) ~> (~EntryOf(n).present \/ ~Stale(n) \/ sweep.cancelled)

\* C12 witness: a fixed-window entry and a token-bucket entry were made by
\* calls and both have been removed by the sweep.
C12_Witness ==
    /\ SweepRuns
    /\ \E k1, k2 \in Keys :
        /\ KeyCalls("fw", k1) # <<>> /\ ~mem.fw[k1].present
        /\ KeyCalls("tb", k2) # <<>> /\ ~mem.tb[k2].present

\* What a call of the in-process store returns when nothing but calls has
\* touched the maps.
MemRet(c) ==
    IF c.alg = "fw"
    THEN Ret("nil", MemIncrement(mem.fw[c.key], cfg.window, c.at).count, FALSE, 0)
    ELSE LET out == MemTakeToken(mem.tb[c.key], cfg.rate, cfg.burst, c.at)
         IN  Ret("nil", 0, out.allowed, out.entry.tokens)

C20_SweepNoRace ==
    [][\A n \in Entries :
          /\ (EntryOf(n).present /\ ~EntryOf(n).present') => Stale(n)
          /\ (EntryOf(n)' # EntryOf(n)) =>
                \/ Stale(n) /\ ~EntryOf(n).present'
                \/ /\ Len(calls') = Len(calls) + 1
                   /\ calls'[Len(calls')].alg = n[1]
                   /\ calls'[Len(calls')].key = n[2]]_vars

\* C20 witness: in the middle of a pass (the mutex held by the sweep) one
\* entry has been deleted after its expiry while another, still live, is kept.
C20_Witness ==
    /\ mu = "sweep"
    /\ SweepRuns
    /\ \E n, m \in Entries :
        /\ KeyCalls(n[1], n[2]) # <<>>
        /\ ~EntryOf(n).present
        /\ n \notin sweep.todo
        /\ EntryOf(m).present
        /\ ~Stale(m)
        /\ m \notin sweep.todo

\* The place of what in the list ev; 0 if it is not there.
Place(ev, what) ==
    IF \E i \in 1..Len(ev) : ev[i] = what
    THEN CHOOSE i \in 1..Len(ev) : ev[i] = what /\ \A j \in 1..(i - 1) : ev[j] # what
    ELSE 0

\* strconv.ParseInt of a decimal text, for reading a header back.
RECURSIVE ParseNat(_)
ParseNat(t) ==
    IF Len(t) = 0 THEN 0
    ELSE 10 * ParseNat(SubSeq(t, 1, Len(t) - 1))
            + (CHOOSE d \in 0..9 : Digit(d) = t[Len(t)])

ParseInt(t) == IF t[1] = "-" THEN 0 - ParseNat(Tail(t)) ELSE ParseNat(t)

RateLimitHeaders == {"X-RateLimit-Limit", "X-RateLimit-Remaining", "X-RateLimit-Reset"}

\* C14: rate-limit headers on every decided request.  In the chi and in the
\* echo middleware, when Limiter.Allow returns without error the headers
\* X-RateLimit-Limit, X-RateLimit-Remaining and X-RateLimit-Reset are set
\* from the Result before the next handler or the ErrorHandler runs, for an
\* allowed and for a denied request alike; when the key extraction or Allow
\* fails none of the three is set.
C14_RateLimitHeaders ==
    \A i \in 1..Len(resps) :
        LET r == resps[i]
            after == Max(Place(r.ev, "next"), Place(r.ev, "ErrorHandler"))
        IN  IF r.keyErr = "nil" /\ r.out.err = "nil"
            THEN /\ \A h \in {r.headers.limit, r.headers.remaining, r.headers.reset} :
                        h # <<>>
                 /\ ParseInt(r.headers.limit) = r.out.limit
                 /\ ParseInt(r.headers.remaining) = r.out.remaining
                 /\ ParseInt(r.headers.reset) = Unix(r.at + r.out.resetAfter)
                 /\ after > 0
                 /\ \A h \in RateLimitHeaders :
                        Place(r.ev, h) > 0 /\ Place(r.ev, h) < after
            ELSE /\ r.headers = NoHeaders
                 /\ \A h \in RateLimitHeaders : Place(r.ev, h) = 0

\* C14 witness: both adapters have answered, one a denied request with its
\* headers set and one a request whose Allow failed, with none.
C14_Witness ==
    \E i, j \in 1..Len(resps) :
        /\ resps[i].adapter # resps[j].adapter
        /\ resps[i].keyErr = "nil" /\ resps[i].out.err = "nil"
        /\ ~resps[i].out.allowed
        /\ resps[i].headers.remaining = <<"1", "2">>
        /\ Place(resps[i].ev, "ErrorHandler") = Len(resps[i].ev)
        /\ resps[j].keyErr = "nil" /\ resps[j].out.err # "nil"
        /\ resps[j].status = 500

\* The reference step of TakeToken on the stored entry e (absent: as if
\* tokens = burst and lastUpdated = now) at the caller's time t.
TakeTokenRef(e, rate, burst, t) ==
    LET cap == burst * TokScale
        tokens0 == IF e.type = "none" THEN cap ELSE e.tokens
        last0 == IF e.type = "none" THEN t ELSE e.last
        elapsed == t - last0
        grown == tokens0 + elapsed * rate
        have == IF elapsed > 0 THEN (IF grown < cap THEN grown ELSE cap) ELSE tokens0
        allowed == have >= TokScale
    IN  [allowed |-> allowed,
         tokens |-> IF allowed THEN have - TokScale ELSE have,
         last |-> t]

\* What a step of RedisStore.TakeToken on key k persists is the reference's.
StepPersists(k) ==
    LET c == calls'[Len(calls')]
        ref == TakeTokenRef(Lookup(rdb[k], ServerMs(c.execAt)), cfg.rate, cfg.burst, c.at)
    IN  /\ rdb'[k].type = "hash"
        /\ rdb'[k].tokens = ref.tokens
        /\ rdb'[k].last = ref.last

\* What a step of RedisStore.TakeToken on key k returns is the reference's.
StepReturns(k) ==
    LET c == calls'[Len(calls')]
        ref == TakeTokenRef(Lookup(rdb[k], ServerMs(c.execAt)), cfg.rate, cfg.burst, c.at)
    IN  c.ret = Ret("nil", 0, ref.allowed, ref.tokens)

RedisTakeTokenStep(k) ==
    /\ Len(calls') = Len(calls) + 1
    /\ calls'[Len(calls')].store = "redis"
    /\ calls'[Len(calls')].alg = "tb"
    /\ calls'[Len(calls')].key = k

\* C15: networked TakeToken step.  For every stored (tokens, lastUpdated),
\* now, rate and burst, a TakeToken of the networked store does the reference
\* step: an absent key counts as tokens = burst, lastUpdated = now; a positive
\* elapsed time refills to min(burst, tokens + elapsed * rate); the call is
\* allowed iff tokens >= 1 and 1 is then deducted; (tokens, now) is persisted
\* on allowed and denied calls alike; (allowed, tokens-after) is returned.
C15_TakeTokenStep ==
    [][\A k \in Keys : RedisTakeTokenStep(k) => StepPersists(k) /\ StepReturns(k)]_vars

\* max(10, ceil(2 * burst / rate)) seconds, in ticks.
IdleTTL ==
    Max(10, CeilDiv(2 * cfg.burst * TokScale, cfg.rate * TicksPerSec)) * TicksPerSec

\* C16: token-bucket key expiry.  Every RedisStore.TakeToken, allowed or
\* denied, sets the key's time-to-live to max(10, ceil(2 * burst / rate))
\* seconds from that call: the key is there while no more than that has
\* passed since its last TakeToken and gone once more has (by a millisecond
\* of the server's clock), and the next call then takes the fresh-key path.
C16_KeyExpiry ==
    LET s == KeyCalls("tb", "a") IN
    /\ Len(s) >= 1 =>
            rdb["a"].exp = ServerMs(s[Len(s)].execAt) + Milliseconds(IdleTTL)
    /\ \A p \in 2..Len(s) :
            LET gone == s[p].at - s[p - 1].at IN
            /\ gone <= IdleTTL => ~s[p].fresh
            /\ gone >= IdleTTL + TicksPerMs =>
                    /\ s[p].fresh
                    /\ s[p].ret = Ret("nil", 0, TRUE, (cfg.burst - 1) * TokScale)

\* C16 witness: a denied call has pushed the expiry on (the call made a whole
\* time-to-live after it, and more than that after the first call, found the
\* key), and a call made a millisecond more than the time-to-live after the
\* last one found no key.
C16_Witness ==
    LET s == KeyCalls("tb", "a") IN
    /\ Len(s) = 4
    /\ ~s[2].ret.allowed
    /\ s[2].at > s[1].at
    /\ s[3].at - s[2].at = IdleTTL
    /\ ~s[3].fresh
    /\ s[4].at - s[3].at = IdleTTL + TicksPerMs
    /\ s[4].fresh

\* C17: Fixed Window with limit = 0.  Every Allow call for every key is
\* denied with remaining 0, and each call still increments the key's counter:
\* the Increment results of the calls of one window are 1, 2, 3, ...
C17_LimitZero ==
    \A k \in Keys :
        LET s == KeyCalls("fw", k) IN
        \A p \in 1..Len(s) :
            /\ AllowFW(0, s[p]).err = "nil"
            /\ ~AllowFW(0, s[p]).allowed
            /\ AllowFW(0, s[p]).remaining = 0
            /\ WindowPos(s, p).ok => s[p].ret.count = WindowPos(s, p).n

\* (1 - remainingTokens), in sub-tokens: the limiter's ResetAfter of a denied
\* call, (1 - remainingTokens) / rate, times the rate.
ResetAfterByRate(c) == TokScale - c.ret.tokens

\* C18: denied token-bucket calls report a positive wait.  Whenever TakeToken
\* denies, the remainingTokens it returns is in [0, 1), so that the limiter's
\* ResetAfter = (1 - remainingTokens) / rate is greater than zero and at
\* most 1 / rate.
C18_DeniedWaitPositive ==
    \A i \in Idx :
        (calls[i].alg = "tb" /\ calls[i].done /\ calls[i].ret.err = "nil"
            /\ ~calls[i].ret.allowed) =>
            /\ 0 <= calls[i].ret.tokens
            /\ calls[i].ret.tokens < TokScale
            /\ ResetAfterByRate(calls[i]) > 0
            /\ ResetAfterByRate(calls[i]) <= TokScale

\* The state a store keeps for key k: the Redis key, or the entries of the
\* two maps.
KeyState(k) == <<rdb[k], mem.fw[k], mem.tb[k]>>

\* The call that a step runs on the store, if it runs one: the call just
\* made (in-process, or a whole Redis call) or the request the server runs.
RunsOn(k) ==
    \/ /\ Len(calls') = Len(calls) + 1
       /\ calls'[Len(calls')].key = k
    \/ \E i \in Idx : /\ calls[i].key = k
                       /\ calls[i].srv = "pending"
                       /\ calls'[i].srv = "executed"

\* C19: cross-key frame.  An Increment or TakeToken on key k changes k's
\* entry only: the count, expiry, tokens and lastUpdated of every other key
\* stay as they are (and, in the in-process store, so does k's entry of the
\* other algorithm), so a key's results depend on the calls for that key only.
C19_CrossKeyFrame ==
    [][\A k \in Keys :
          /\ KeyState(k)' # KeyState(k) => RunsOn(k)
          /\ ~(mem.fw[k]' # mem.fw[k] /\ mem.tb[k]' # mem.tb[k])]_vars

\* C19 witness: both keys hold state written by calls of their own, on Redis
\* a counter under one and a bucket under the other, the requests run by the
\* server in the reverse of the order they were made in.
C19_Witness ==
    /\ store = "redis"
    /\ Len(calls) = 2
    /\ calls[1].key = "a" /\ calls[1].alg = "fw"
    /\ calls[2].key = "b" /\ calls[2].alg = "tb"
    /\ calls[1].srv = "executed" /\ calls[2].srv = "executed"
    /\ calls[2].execAt <= calls[1].execAt
    /\ rdb["a"].type = "string"
    /\ rdb["b"].type = "hash"

\* How many times what is in the list ev.
Count(ev, what) == Cardinality({i \in 1..Len(ev) : ev[i] = what})

\* What a handler did, apart from which adapter it is.
Outcome(r) == <<r.allows, r.headers, r.status, r.ev, r.passed>>

\* C21: middleware outcome.  In the chi and in the echo middleware a request
\* calls Limiter.Allow at most once and ends in exactly one of three ways:
\* the key extraction or Allow failed, 500 is written and neither the next
\* handler nor the ErrorHandler runs; Allow gave Allowed = false, the
\* ErrorHandler runs once with ErrorExceeded and the Result and the next
\* handler does not run; Allow gave Allowed = true, the next handler runs
\* once and the ErrorHandler does not.  The two adapters do the same for the
\* same inputs.
C21_MiddlewareOutcome ==
    /\ \A i \in 1..Len(resps) :
        LET r == resps[i]
            nexts == Count(r.ev, "next")
            handled == Count(r.ev, "ErrorHandler")
            failed == Count(r.ev, "write 500")
        IN  /\ r.allows = Count(r.ev, "Allow")
            /\ r.allows <= 1
            /\ r.keyErr # "nil" => r.allows = 0
            /\ IF r.keyErr # "nil" \/ r.out.err # "nil"
               THEN failed = 1 /\ r.status = 500 /\ nexts = 0 /\ handled = 0
                    /\ r.passed = <<>>
               ELSE IF ~r.out.allowed
               THEN failed = 0 /\ r.status = 0 /\ nexts = 0 /\ handled = 1
                    /\ r.passed = <<"ErrorExceeded", r.out>>
               ELSE failed = 0 /\ r.status = 0 /\ nexts = 1 /\ handled = 0
                    /\ r.passed = <<>>
    /\ \A i, j \in 1..Len(resps) :
        (resps[i].keyErr = resps[j].keyErr /\ resps[i].out = resps[j].out
            /\ resps[i].at = resps[j].at)
        => Outcome(resps[i]) = Outcome(resps[j])

\* C21 witness: the same denied request has gone through the chi and through
\* the echo middleware, and the ErrorHandler has run in both.
C21_Witness ==
    /\ Len(resps) = 2
    /\ resps[1].adapter = "chi" /\ resps[2].adapter = "echo"
    /\ resps[1].keyErr = "nil" /\ resps[1].out.err = "nil" /\ ~resps[1].out.allowed
    /\ resps[2].keyErr = resps[1].keyErr
    /\ resps[2].out = resps[1].out
    /\ resps[2].at = resps[1].at
    /\ Count(resps[2].ev, "ErrorHandler") = 1

\* The token-bucket calls on key k that the store has run and allowed, from
\* the reading of the clock to the run of the call within [t1, t2].
AllowedWithin(k, t1, t2) ==
    {i \in Idx : /\ calls[i].alg = "tb"
                 /\ calls[i].key = k
                 /\ calls[i].srv = "executed"
                 /\ ScriptRet(calls[i]).err = "nil"
                 /\ ScriptRet(calls[i]).allowed
                 /\ t1 <= calls[i].at
                 /\ calls[i].execAt <= t2}

\* The instants of the history.
Instants == {calls[i].at : i \in Idx} \cup {calls[i].execAt : i \in Idx}

\* C22: token-bucket throughput bound.  For any key and any interleaving of
\* TakeToken calls from any number of limiter instances that share one store
\* and read one non-decreasing clock, the calls allowed in any interval of
\* length T are at most burst + rate * T, also across the expiry of the key.
C22_ThroughputBound ==
    \A k \in Keys, t1 \in Instants, t2 \in Instants :
        t1 <= t2 =>
            Cardinality(AllowedWithin(k, t1, t2)) * TokScale
                <= cfg.burst * TokScale + cfg.rate * (t2 - t1)

\* A TakeToken script runs on key k and finds the bucket there.
TakeTokenOnBucket(k) ==
    /\ rdb'[k] # rdb[k]
    /\ Lookup(rdb[k], ServerMs(now)).type = "hash"
    /\ rdb'[k].type = "hash"

\* C23: monotonic refill timestamp.  Across successive TakeToken calls on
\* one key of the networked store the persisted last_updated never
\* decreases, whichever limiter instance a call comes from, so no call is
\* credited refill for time an earlier call has accounted for.
C23_MonotonicLastUpdated ==
    [][\A k \in Keys : TakeTokenOnBucket(k) => rdb'[k].last >= rdb[k].last]_vars

\* The script of call i runs on key k, whose bucket has expired: it gives
\* what it would give on the bucket had the key been kept.
ExpiryNeutral(i, k) ==
    (/\ calls[i].store = "redis"
     /\ calls[i].alg = "tb"
     /\ calls[i].key = k
     /\ calls[i].srv = "pending"
     /\ calls'[i].srv = "executed"
     /\ rdb[k].type = "hash"
     /\ Lookup(rdb[k], ServerMs(now)).type = "none")
        => RunScript(calls[i], rdb[k], now)
                = RunScript(calls[i], [rdb[k] EXCEPT !.exp = NoExp], now)

\* The sweep deletes the bucket of key k: a TakeToken from then on gives
\* what it would give on the bucket had it been kept.
SweepNeutral(k) ==
    (mem.tb[k].present /\ ~mem'.tb[k].present)
        => MemTakeToken(mem'.tb[k], cfg.rate, cfg.burst, now)
                = MemTakeToken(mem.tb[k], cfg.rate, cfg.burst, now)

\* C24: entry removal is outcome-neutral for token buckets.  A bucket is
\* removed, by the key's expiry on Redis or by the sweep of the in-process
\* store, only when lazy refill would have brought it to burst: the next
\* TakeToken on the key gives the same whether or not the bucket was
\* removed, and removal never gives a key more tokens than it would have had.
C24_RemovalNeutral ==
    [][\A k \in Keys : /\ SweepNeutral(k)
                        /\ \A i \in 1..Len(calls) : ExpiryNeutral(i, k)]_vars

\* The store has run the fixed-window call i.
Counted(i) == calls[i].alg = "fw" /\ calls[i].srv = "executed"

\* The call i created the counter of its key.
Creates(i) == Counted(i) /\ calls[i].fresh

\* The calls between the creation of a counter by call i and its expiry:
\* call i, and the calls on the key that found a counter, with no creation
\* between call i and them.
Lifetime(i) ==
    {j \in Idx :
        /\ Counted(j)
        /\ calls[j].key = calls[i].key
        /\ j = i \/ ~calls[j].fresh
        /\ calls[j].execAt >= calls[i].execAt
        /\ ~\E m \in Idx : /\ Creates(m)
                            /\ calls[m].key = calls[i].key
                            /\ calls[i].execAt < calls[m].execAt
                            /\ calls[m].execAt <= calls[j].execAt}

\* The calls of a set have returned, none with an error.
AllReturned(L) == \A j \in L : calls[j].done /\ calls[j].ret.err = "nil"

\* C25: fixed-window admission bound.  Under a Fixed Window limiter with
\* limit N, of the K Allow calls on one key between the key's creation and
\* its expiry, in any interleaving and from any number of instances sharing
\* the store, never more than N are allowed, and exactly min(K, N) when the
\* K calls have returned without error.
C25_AdmissionBound ==
    \A i \in Idx : Creates(i) =>
        LET L == Lifetime(i)
            K == Cardinality(L)
        IN  \A N \in Limits :
                LET allowed == Cardinality({j \in L : AllowFW(N, calls[j]).allowed})
                IN  /\ allowed <= N
                    /\ AllReturned(L) => allowed = IF K < N THEN K ELSE N

\* C25 witness: three calls on the networked store between a counter's
\* creation and its expiry, run in another order than they were sent, the
\* last one sent after a pause: more calls than the limits 1 and 2 allow.
C25_Witness ==
    /\ Len(calls) = 3
    /\ Creates(2)
    /\ Lifetime(2) = {1, 2, 3}
    /\ calls[2].store = "redis"
    /\ calls[3].at > calls[2].at
    /\ AllReturned({1, 2, 3})
    /\ calls[1].ret.count = 3
    /\ ~AllowFW(2, calls[1]).allowed

====
